---- MODULE Spec2Model ----
(***************************************************************************)
(* The relational schema of src/domain/models.py (SQLAlchemy declarative   *)
(* models) as a state machine: the state is the content of the seven       *)
(* tables, the operations are the schema creation of the __main__ block    *)
(* and the unit-of-work inserts and deletes the declared columns,          *)
(* constraints and relationship cascades give meaning to.                  *)
(*                                                                         *)
(* Only the columns that carry a constraint, a default or a key are kept;  *)
(* the free-text, JSON and timestamp columns constrain nothing.            *)
(***************************************************************************)
EXTENDS Integers, FiniteSets, Sequences, TLC

\* ------------------------------------------------------------------ bounds
\* The number of rows, all tables together, up to which the model inserts.
MaxRows == 4
\* The number of stored rows with a foreign key that names no stored row
\* up to which the model inserts another one.
MaxOrphans == 1

\* Key values: default=uuid.uuid4 draws a fresh one for each inserted row,
\* the model draws it from the unused ones of these sets.
UserIds      == {"u1", "u2"}
AnimeIds     == {"a1"}
RatingIds    == {"r1"}
NoteIds      == {"n1"}
WatchlistIds == {"w1", "w2"}
ItemIds      == {"i1", "i2"}

Usernames == {"ann", "bob"}
Emails    == {"x@m", "y@m"}
Ages      == {20, 30}

\* Python's None / SQL NULL.
NULL == "NULL"
\* Watchlist.name, default='My Watchlist'
DefaultWatchlistName == "My Watchlist"
ExplicitNames == {"Favorites"}

\* __tablename__ of the seven mapped classes, collected by Base.metadata.
SchemaTables ==
  {"user", "user_profile", "anime", "rating", "note", "watchlist", "watchlist_item"}

\* The engines the module is written for: the in-memory SQLite engine the
\* __main__ block builds, and the PostgreSQL server its comment names.
Engines == {"sqlite", "postgresql"}

VARIABLES
  engine,      \* the engine the session is bound to
  tables,      \* names of the tables that exist in the database
  users,       \* rows of 'user'
  profiles,    \* rows of 'user_profile'
  animes,      \* rows of 'anime'
  ratings,     \* rows of 'rating'
  notes,       \* rows of 'note'
  watchlists,  \* rows of 'watchlist'
  items,       \* rows of 'watchlist_item'
  last         \* the last operation: its name, its outcome, the rows it
               \* deleted, and arg: the key given to a delete or to a
               \* profile insert, the name given to a watchlist insert

rows == <<users, profiles, animes, ratings, notes, watchlists, items>>
vars == <<engine, tables, users, profiles, animes, ratings, notes, watchlists, items, last>>

TotalRows ==
  Cardinality(users) + Cardinality(profiles) + Cardinality(animes)
  + Cardinality(ratings) + Cardinality(notes) + Cardinality(watchlists)
  + Cardinality(items)

\* ------------------------------------------------------------- the engine
\* SQLite enforces FOREIGN KEY clauses only after PRAGMA foreign_keys=ON,
\* which create_engine('sqlite:///:memory:') does not issue; PostgreSQL
\* always enforces them.  UNIQUE, PRIMARY KEY and NOT NULL hold on both.
ForeignKeysEnforced == engine = "postgresql"

\* --------------------------------------------------------------- the keys
UserKeys(us)      == {u.user_id : u \in us}
AnimeKeys(as)     == {a.anime_id : a \in as}
WatchlistKeys(ws) == {w.watchlist_id : w \in ws}

\* ForeignKey('user.user_id') of user_profile, rating, note and watchlist;
\* ForeignKey('anime.anime_id') of rating, note and watchlist_item;
\* ForeignKey('watchlist.watchlist_id') of watchlist_item.
ForeignKeysHold(us, ps, as, rs, ns, ws, is) ==
  /\ \A p \in ps : p.user_id \in UserKeys(us)
  /\ \A r \in rs : r.user_id \in UserKeys(us) /\ r.anime_id \in AnimeKeys(as)
  /\ \A n \in ns : n.user_id \in UserKeys(us) /\ n.anime_id \in AnimeKeys(as)
  /\ \A w \in ws : w.user_id \in UserKeys(us)
  /\ \A i \in is : i.watchlist_id \in WatchlistKeys(ws) /\ i.anime_id \in AnimeKeys(as)

\* ---------------------------------------------------------- relationships
\* What each relationship with cascade="all, delete-orphan" loads for a
\* parent, and so what session.delete(parent) deletes with it.
User_profile(u)    == {p \in profiles : p.user_id = u}
User_watchlists(u) == {w \in watchlists : w.user_id = u}
\* (cascade left off User.ratings)
User_ratings_NoCascade(u) == {}
User_ratings(u)    == {r \in ratings : r.user_id = u}
User_notes(u)      == {n \in notes : n.user_id = u}

Anime_ratings(a)         == {r \in ratings : r.anime_id = a}
Anime_notes(a)           == {n \in notes : n.anime_id = a}
\* (cascade left off Anime.watchlist_items)
Anime_watchlist_items_NoCascade(a) == {}
Anime_watchlist_items(a) == {i \in items : i.anime_id = a}

\* (cascade left off Watchlist.items)
Watchlist_items_NoCascade(w) == {}
Watchlist_items(w) == {i \in items : i.watchlist_id = w}

\* The many-to-one sides declare no cascade (relationship's default is
\* "save-update, merge"): session.delete(child) deletes no parent row.
UserProfile_user(p)        == {}
\* (cascade="all" put on the many-to-one side Rating.user)
Rating_user_Cascade(r) == {u \in users : u.user_id = r.user_id}
Rating_user(r)             == {}
Rating_anime(r)            == {}
Note_user(n)               == {}
Note_anime(n)              == {}
Watchlist_user(w)          == {}
WatchlistItem_watchlist(i) == {}
WatchlistItem_anime(i)     == {}

\* The rows an operation deleted, each as <<table, primary key>>.
Deleted(du, dp, da, dr, dn, dw, di) ==
  {<<"user", x.user_id>> : x \in du}
  \cup {<<"user_profile", x.user_id>> : x \in dp}
  \cup {<<"anime", x.anime_id>> : x \in da}
  \cup {<<"rating", x.rating_id>> : x \in dr}
  \cup {<<"note", x.note_id>> : x \in dn}
  \cup {<<"watchlist", x.watchlist_id>> : x \in dw}
  \cup {<<"watchlist_item", x.watchlist_item_id>> : x \in di}

Outcome(op, arg, res, del) == [op |-> op, arg |-> arg, res |-> res, deleted |-> del]

\* ------------------------------------------------------------------- Init
\* The session starts on an empty database (the in-memory engine, a new
\* server) or on one an earlier session materialized and populated: two
\* users and two watchlists holding the same anime, the first user with a
\* profile, a rating, a note and the first watchlist, the second watchlist
\* owned by either user.
EmptyDatabase ==
  /\ tables = {}
  /\ users = {} /\ profiles = {} /\ animes = {} /\ ratings = {}
  /\ notes = {} /\ watchlists = {} /\ items = {}

PopulatedDatabase(owner) ==
  /\ tables = SchemaTables
  /\ users = {[user_id |-> "u1", username |-> "ann", email |-> "x@m"],
              [user_id |-> "u2", username |-> "bob", email |-> "y@m"]}
  /\ profiles = {[user_id |-> "u1", age |-> 20]}
  /\ animes = {[anime_id |-> "a1"]}
  /\ ratings = {[rating_id |-> "r1", user_id |-> "u1", anime_id |-> "a1"]}
  /\ notes = {[note_id |-> "n1", user_id |-> "u1", anime_id |-> "a1"]}
  /\ watchlists = {[watchlist_id |-> "w1", user_id |-> "u1", name |-> DefaultWatchlistName],
                   [watchlist_id |-> "w2", user_id |-> owner, name |-> "Favorites"]}
  /\ items = {[watchlist_item_id |-> "i1", watchlist_id |-> "w1", anime_id |-> "a1"],
              [watchlist_item_id |-> "i2", watchlist_id |-> "w2", anime_id |-> "a1"]}

Init ==
  /\ engine \in Engines
  /\ EmptyDatabase \/ \E owner \in UserIds : PopulatedDatabase(owner)
  /\ last = Outcome("none", NULL, "ok", {})

\* ------------------------------------------------------------ materialize
\* (drop_all before create_all)
Materialize_DropFirst ==
  /\ tables' = SchemaTables
  /\ users' = {} /\ profiles' = {} /\ animes' = {} /\ ratings' = {}
  /\ notes' = {} /\ watchlists' = {} /\ items' = {}
  /\ last' = Outcome("Materialize", NULL, "ok", {})
  /\ UNCHANGED engine

\* Base.metadata.create_all(engine): checkfirst=True, so a table that
\* exists is left alone, with its rows.
Materialize ==
  /\ tables' = tables \cup SchemaTables
  /\ last' = Outcome("Materialize", NULL, "ok", {})
  /\ UNCHANGED <<engine, rows>>

\* ---------------------------------------------------------------- inserts
\* Every insert below is session.add(obj); session.commit() with the table
\* created; Fail is the IntegrityError the engine raises, after which the
\* transaction is rolled back and no row is stored.
Ready == tables = SchemaTables

Orphans ==
  Cardinality({p \in profiles : p.user_id \notin UserKeys(users)})
  + Cardinality({r \in ratings :
       r.user_id \notin UserKeys(users) \/ r.anime_id \notin AnimeKeys(animes)})
  + Cardinality({n \in notes :
       n.user_id \notin UserKeys(users) \/ n.anime_id \notin AnimeKeys(animes)})
  + Cardinality({w \in watchlists : w.user_id \notin UserKeys(users)})
  + Cardinality({i \in items :
       i.watchlist_id \notin WatchlistKeys(watchlists) \/ i.anime_id \notin AnimeKeys(animes)})

\* The inserts the model follows: within MaxRows, and a row with a dangling
\* foreign key only within MaxOrphans.
Room(dangling) == TotalRows < MaxRows /\ (dangling => Orphans < MaxOrphans)

Fail(op, arg, res) ==
  /\ last' = Outcome(op, arg, res, {})
  /\ UNCHANGED <<engine, tables, rows>>

\* (unique=True left off email)
UserUniqueViolation_UsernameOnly(username, email) ==
  \E u \in users : u.username = username

\* username and email: unique=True
UserUniqueViolation(username, email) ==
  \E u \in users : u.username = username \/ u.email = email

CreateUser(username, email) ==
  /\ Ready
  /\ IF UserUniqueViolation(username, email)
     THEN Fail("CreateUser", NULL, "unique")
     ELSE /\ Room(FALSE)
          /\ \E id \in UserIds \ UserKeys(users) :
               users' = users \cup {[user_id |-> id, username |-> username, email |-> email]}
          /\ last' = Outcome("CreateUser", NULL, "ok", {})
          /\ UNCHANGED <<engine, tables, profiles, animes, ratings, notes, watchlists, items>>

\* (user_profile keyed by a column of its own)
ProfileKeyViolation_Unchecked(uid) == FALSE

\* user_profile.user_id: primary_key=True
ProfileKeyViolation(uid) == \E p \in profiles : p.user_id = uid

CreateUserProfile(uid, age) ==
  /\ Ready
  /\ IF ProfileKeyViolation(uid)
     THEN Fail("CreateUserProfile", uid, "primary_key")
     ELSE IF ForeignKeysEnforced /\ uid \notin UserKeys(users)
     THEN Fail("CreateUserProfile", uid, "foreign_key")
     ELSE /\ Room(uid \notin UserKeys(users))
          /\ profiles' = profiles \cup {[user_id |-> uid, age |-> age]}
          /\ last' = Outcome("CreateUserProfile", uid, "ok", {})
          /\ UNCHANGED <<engine, tables, users, animes, ratings, notes, watchlists, items>>

CreateAnime ==
  /\ Ready
  /\ Room(FALSE)
  /\ \E id \in AnimeIds \ AnimeKeys(animes) :
       animes' = animes \cup {[anime_id |-> id]}
  /\ last' = Outcome("CreateAnime", NULL, "ok", {})
  /\ UNCHANGED <<engine, tables, users, profiles, ratings, notes, watchlists, items>>

CreateRating(uid, aid) ==
  /\ Ready
  /\ IF ForeignKeysEnforced /\ (uid \notin UserKeys(users) \/ aid \notin AnimeKeys(animes))
     THEN Fail("CreateRating", NULL, "foreign_key")
     ELSE /\ Room(uid \notin UserKeys(users) \/ aid \notin AnimeKeys(animes))
          /\ \E id \in RatingIds \ {r.rating_id : r \in ratings} :
               ratings' = ratings \cup {[rating_id |-> id, user_id |-> uid, anime_id |-> aid]}
          /\ last' = Outcome("CreateRating", NULL, "ok", {})
          /\ UNCHANGED <<engine, tables, users, profiles, animes, notes, watchlists, items>>

CreateNote(uid, aid) ==
  /\ Ready
  /\ IF ForeignKeysEnforced /\ (uid \notin UserKeys(users) \/ aid \notin AnimeKeys(animes))
     THEN Fail("CreateNote", NULL, "foreign_key")
     ELSE /\ Room(uid \notin UserKeys(users) \/ aid \notin AnimeKeys(animes))
          /\ \E id \in NoteIds \ {n.note_id : n \in notes} :
               notes' = notes \cup {[note_id |-> id, user_id |-> uid, anime_id |-> aid]}
          /\ last' = Outcome("CreateNote", NULL, "ok", {})
          /\ UNCHANGED <<engine, tables, users, profiles, animes, ratings, watchlists, items>>

\* (default= left off Watchlist.name)
WatchlistName_NoDefault(name) == name

\* name = Column(String(255), nullable=False, default='My Watchlist'): the
\* unit of work leaves a None attribute of a defaulted column out of the
\* INSERT, and the column default fills it.
WatchlistName(name) == IF name = NULL THEN DefaultWatchlistName ELSE name

CreateWatchlist(uid, name) ==
  /\ Ready
  /\ IF ForeignKeysEnforced /\ uid \notin UserKeys(users)
     THEN Fail("CreateWatchlist", name, "foreign_key")
     ELSE IF WatchlistName(name) = NULL
     THEN Fail("CreateWatchlist", name, "not_null")
     ELSE /\ Room(uid \notin UserKeys(users))
          /\ \E id \in WatchlistIds \ WatchlistKeys(watchlists) :
               watchlists' = watchlists \cup
                 {[watchlist_id |-> id, user_id |-> uid, name |-> WatchlistName(name)]}
          /\ last' = Outcome("CreateWatchlist", name, "ok", {})
          /\ UNCHANGED <<engine, tables, users, profiles, animes, ratings, notes, items>>

CreateWatchlistItem(wid, aid) ==
  /\ Ready
  /\ IF ForeignKeysEnforced /\ (wid \notin WatchlistKeys(watchlists) \/ aid \notin AnimeKeys(animes))
     THEN Fail("CreateWatchlistItem", NULL, "foreign_key")
     ELSE /\ Room(wid \notin WatchlistKeys(watchlists) \/ aid \notin AnimeKeys(animes))
          /\ \E id \in ItemIds \ {i.watchlist_item_id : i \in items} :
               items' = items \cup
                 {[watchlist_item_id |-> id, watchlist_id |-> wid, anime_id |-> aid]}
          /\ last' = Outcome("CreateWatchlistItem", NULL, "ok", {})
          /\ UNCHANGED <<engine, tables, users, profiles, animes, ratings, notes, watchlists>>

\* ---------------------------------------------------------------- deletes
\* session.delete(obj); session.commit(): the unit of work deletes obj and
\* what its delete cascades reach, children first.  No ForeignKey declares
\* ondelete, so an engine that enforces foreign keys refuses the delete
\* (and the transaction rolls back) when a referencing row would be left.
Delete(op, arg, du, dp, da, dr, dn, dw, di) ==
  LET us == users \ du        ps == profiles \ dp
      as == animes \ da       rs == ratings \ dr
      ns == notes \ dn        ws == watchlists \ dw
      is == items \ di
  IN IF /\ ForeignKeysEnforced
        /\ ForeignKeysHold(users, profiles, animes, ratings, notes, watchlists, items)
        /\ ~ForeignKeysHold(us, ps, as, rs, ns, ws, is)
     THEN Fail(op, arg, "foreign_key")
     ELSE /\ users' = us /\ profiles' = ps /\ animes' = as /\ ratings' = rs
          /\ notes' = ns /\ watchlists' = ws /\ items' = is
          /\ last' = Outcome(op, arg, "ok", Deleted(du, dp, da, dr, dn, dw, di))
          /\ UNCHANGED <<engine, tables>>

DeleteUser(u) ==
  /\ Ready
  /\ u \in UserKeys(users)
  /\ Delete("DeleteUser", u,
            {x \in users : x.user_id = u},
            User_profile(u), {}, User_ratings(u), User_notes(u), User_watchlists(u),
            UNION {Watchlist_items(w.watchlist_id) : w \in User_watchlists(u)})

DeleteAnime(a) ==
  /\ Ready
  /\ a \in AnimeKeys(animes)
  /\ Delete("DeleteAnime", a,
            {}, {}, {x \in animes : x.anime_id = a},
            Anime_ratings(a), Anime_notes(a), {}, Anime_watchlist_items(a))

DeleteWatchlist(w) ==
  /\ Ready
  /\ w \in WatchlistKeys(watchlists)
  /\ LET row == {x \in watchlists : x.watchlist_id = w} IN
     Delete("DeleteWatchlist", w,
            UNION {Watchlist_user(x) : x \in row}, {}, {}, {}, {}, row, Watchlist_items(w))

DeleteUserProfile(u) ==
  /\ Ready
  /\ \E p \in profiles : p.user_id = u
  /\ LET row == {p \in profiles : p.user_id = u} IN
     Delete("DeleteUserProfile", u,
            UNION {UserProfile_user(p) : p \in row}, row, {}, {}, {}, {}, {})

DeleteRating(id) ==
  /\ Ready
  /\ \E r \in ratings : r.rating_id = id
  /\ LET row == {r \in ratings : r.rating_id = id} IN
     Delete("DeleteRating", id,
            UNION {Rating_user(r) : r \in row}, {},
            UNION {Rating_anime(r) : r \in row}, row, {}, {}, {})

DeleteNote(id) ==
  /\ Ready
  /\ \E n \in notes : n.note_id = id
  /\ LET row == {n \in notes : n.note_id = id} IN
     Delete("DeleteNote", id,
            UNION {Note_user(n) : n \in row}, {},
            UNION {Note_anime(n) : n \in row}, {}, row, {}, {})

DeleteWatchlistItem(id) ==
  /\ Ready
  /\ \E i \in items : i.watchlist_item_id = id
  /\ LET row == {i \in items : i.watchlist_item_id = id} IN
     Delete("DeleteWatchlistItem", id,
            {}, {}, UNION {WatchlistItem_anime(i) : i \in row}, {}, {},
            UNION {WatchlistItem_watchlist(i) : i \in row}, row)

\* ------------------------------------------------------------------- Next
Next ==
  \/ Materialize
  \/ \E n \in Usernames, e \in Emails : CreateUser(n, e)
  \/ \E u \in UserIds, g \in Ages : CreateUserProfile(u, g)
  \/ CreateAnime
  \/ \E u \in UserIds, a \in AnimeIds : CreateRating(u, a)
  \/ \E u \in UserIds, a \in AnimeIds : CreateNote(u, a)
  \/ \E u \in UserIds, n \in ExplicitNames \cup {NULL} : CreateWatchlist(u, n)
  \/ \E w \in WatchlistIds, a \in AnimeIds : CreateWatchlistItem(w, a)
  \/ \E u \in UserIds : DeleteUser(u)
  \/ \E a \in AnimeIds : DeleteAnime(a)
  \/ \E w \in WatchlistIds : DeleteWatchlist(w)
  \/ \E u \in UserIds : DeleteUserProfile(u)
  \/ \E id \in RatingIds : DeleteRating(id)
  \/ \E id \in NoteIds : DeleteNote(id)
  \/ \E id \in ItemIds : DeleteWatchlistItem(id)

Spec == Init /\ [][Next]_vars

\* ================================================================= claims
Did(op)      == last.op = op /\ last.res = "ok"
DidNext(op)  == last'.op = op /\ last'.res = "ok"

\* The rows of every table that carry user key u.
CarryUser(u, us, ps, rs, ns, ws) ==
  {x \in us : x.user_id = u} \cup {x \in ps : x.user_id = u}
  \cup {x \in rs : x.user_id = u} \cup {x \in ns : x.user_id = u}
  \cup {x \in ws : x.user_id = u}

\* C1: deleting a User deletes its profile, ratings, notes and watchlists
\* and the items of those watchlists: after the delete no row of any table
\* carries the deleted user_id and no item refers to a watchlist the user
\* owned.
C1_DeleteUserCascades ==
  [][\A u \in UserIds :
       (DidNext("DeleteUser") /\ last'.arg = u) =>
         /\ CarryUser(u, users', profiles', ratings', notes', watchlists') = {}
         /\ \A w \in watchlists : w.user_id = u =>
              \A i \in items' : i.watchlist_id # w.watchlist_id]_vars

\* A user with a profile, a rating, a note and a watchlist holding an item
\* was deleted, and another user's rows are still stored.
C1_Witness ==
  /\ Did("DeleteUser")
  /\ {t[1] : t \in last.deleted} =
       {"user", "user_profile", "rating", "note", "watchlist", "watchlist_item"}
  /\ users # {} /\ watchlists # {} /\ items # {}

\* C2: deleting an Anime deletes every rating, note and watchlist item
\* whose anime_id is that anime, whatever watchlist the item sits in.
C2_DeleteAnimeCascades ==
  [][\A a \in AnimeIds :
       (DidNext("DeleteAnime") /\ last'.arg = a) =>
         /\ a \notin AnimeKeys(animes')
         /\ \A r \in ratings' : r.anime_id # a
         /\ \A n \in notes' : n.anime_id # a
         /\ \A i \in items' : i.anime_id # a]_vars

\* An anime with a rating, a note and items in the watchlists of two
\* different users was deleted.
C2_Witness ==
  /\ Did("DeleteAnime")
  /\ {<<"rating", "r1">>, <<"note", "n1">>,
      <<"watchlist_item", "i1">>, <<"watchlist_item", "i2">>} \subseteq last.deleted
  /\ \E w1 \in watchlists, w2 \in watchlists :
       w1.user_id # w2.user_id /\ {w1.user_id, w2.user_id} \subseteq UserKeys(users)

\* C3: referential integrity in every reachable state: every foreign key
\* of every stored row names a stored row.
C3_ReferentialIntegrity ==
  ForeignKeysHold(users, profiles, animes, ratings, notes, watchlists, items)

\* C4: usernames and emails are each unique among the stored users; an
\* insert that fails on uniqueness stores nothing, and an insert that
\* succeeds brought a username and an email no stored user had.
C4_UniqueUsers ==
  /\ [](\A u \in users, v \in users :
          u # v => u.username # v.username /\ u.email # v.email)
  /\ [][/\ (last'.op = "CreateUser" /\ last'.res = "unique") => rows' = rows
        /\ DidNext("CreateUser") =>
             /\ Cardinality(users' \ users) = 1
             /\ \A n \in users' \ users : \A u \in users :
                  u.username # n.username /\ u.email # n.email]_vars

\* An insert of a user was refused for uniqueness while a user is stored.
C4_Witness ==
  /\ last.op = "CreateUser" /\ last.res = "unique"
  /\ Cardinality(users) = 2

\* C5: an insert of a UserProfile whose user_id is the key of no stored
\* User fails with a foreign-key violation and adds no profile.
C5_ProfileNeedsUser ==
  (last.op = "CreateUserProfile" /\ last.arg \notin UserKeys(users)) =>
    /\ last.res = "foreign_key"
    /\ \A p \in profiles : p.user_id # last.arg

\* C6: materializing creates exactly the seven tables, and materializing a
\* database that holds them changes neither the tables nor any row.
C6_Materialize ==
  [][last'.op = "Materialize" =>
       /\ tables' = {"user", "user_profile", "anime", "rating", "note",
                     "watchlist", "watchlist_item"}
       /\ Cardinality(tables') = 7
       /\ (tables # {} => tables' = tables)
       /\ rows' = rows]_vars

\* The schema was materialized on a database that holds rows in all seven
\* tables.
C6_Witness ==
  /\ last.op = "Materialize"
  /\ users # {} /\ profiles # {} /\ animes # {} /\ ratings # {}
  /\ notes # {} /\ watchlists # {} /\ items # {}

\* C7: a Watchlist inserted without a name is stored as "My Watchlist", one
\* inserted with a name keeps it, neither insert is refused for a null
\* name, and no stored Watchlist has a null name.
C7_WatchlistName ==
  /\ [](\A w \in watchlists : w.name # NULL)
  /\ [][last'.op = "CreateWatchlist" =>
          /\ last'.res # "not_null"
          /\ last'.res = "ok" =>
               /\ Cardinality(watchlists' \ watchlists) = 1
               /\ \A w \in watchlists' \ watchlists :
                    w.name = IF last'.arg = NULL THEN "My Watchlist" ELSE last'.arg]_vars

\* A watchlist inserted without a name is stored beside one inserted with a
\* name.
C7_Witness ==
  /\ Did("CreateWatchlist") /\ last.arg = NULL
  /\ \E w \in watchlists : w.name = "My Watchlist"
  /\ \E w \in watchlists : w.name = "Favorites"

\* C8: each user_id has at most one UserProfile, and an insert of a profile
\* for a user_id that has one fails and leaves the profiles as they were.
C8_OneProfilePerUser ==
  /\ [](\A p \in profiles, q \in profiles : p.user_id = q.user_id => p = q)
  /\ [][(last'.op = "CreateUserProfile" /\ \E p \in profiles : p.user_id = last'.arg) =>
          /\ last'.res = "primary_key"
          /\ rows' = rows]_vars

\* A second profile was refused for a stored user that has a profile.
C8_Witness ==
  /\ last.op = "CreateUserProfile" /\ last.res = "primary_key"
  /\ last.arg \in UserKeys(users)
  /\ Cardinality({p \in profiles : p.user_id = last.arg}) = 1

\* C9: deleting a Watchlist deletes that row and the items whose
\* watchlist_id it is, and nothing else.
C9_DeleteWatchlistFrame ==
  [][\A w \in WatchlistIds :
       (last'.op = "DeleteWatchlist" /\ last'.arg = w) =>
         /\ last'.res = "ok"
         /\ watchlists' = {x \in watchlists : x.watchlist_id # w}
         /\ items' = {i \in items : i.watchlist_id # w}
         /\ UNCHANGED <<users, profiles, animes, ratings, notes>>]_vars

\* A watchlist holding an item was deleted; its owner, the anime and the
\* owner's other watchlist with its item are stored.
C9_Witness ==
  /\ Did("DeleteWatchlist") /\ last.arg = "w1"
  /\ <<"watchlist_item", "i1">> \in last.deleted
  /\ "u1" \in UserKeys(users) /\ "a1" \in AnimeKeys(animes)
  /\ \E w \in User_watchlists("u1") : Watchlist_items(w.watchlist_id) # {}

\* C10: deleting a Rating, a Note, a WatchlistItem or a UserProfile removes
\* that one row: no User, Anime or Watchlist row and no other child row
\* goes with it.
C10_ChildDeleteFrame ==
  [][/\ \A k \in RatingIds : (last'.op = "DeleteRating" /\ last'.arg = k) =>
          /\ last'.res = "ok"
          /\ ratings' = {r \in ratings : r.rating_id # k}
          /\ UNCHANGED <<users, profiles, animes, notes, watchlists, items>>
     /\ \A k \in NoteIds : (last'.op = "DeleteNote" /\ last'.arg = k) =>
          /\ last'.res = "ok"
          /\ notes' = {n \in notes : n.note_id # k}
          /\ UNCHANGED <<users, profiles, animes, ratings, watchlists, items>>
     /\ \A k \in ItemIds : (last'.op = "DeleteWatchlistItem" /\ last'.arg = k) =>
          /\ last'.res = "ok"
          /\ items' = {i \in items : i.watchlist_item_id # k}
          /\ UNCHANGED <<users, profiles, animes, ratings, notes, watchlists>>
     /\ \A k \in UserIds : (last'.op = "DeleteUserProfile" /\ last'.arg = k) =>
          /\ last'.res = "ok"
          /\ profiles' = {p \in profiles : p.user_id # k}
          /\ UNCHANGED <<users, animes, ratings, notes, watchlists, items>>]_vars

\* A rating was deleted; its user, its anime, the user's note and the
\* user's watchlist with its item are stored.
C10_Witness ==
  /\ Did("DeleteRating") /\ last.deleted = {<<"rating", "r1">>}
  /\ "u1" \in UserKeys(users) /\ "a1" \in AnimeKeys(animes)
  /\ User_notes("u1") # {} /\ User_watchlists("u1") # {}
  /\ Anime_watchlist_items("a1") # {}

====
